---- MODULE Spec2Model ----
(***************************************************************************)
(* A model of wjh::ProcessIdLock (ProcessIdLock.cpp / ProcessIdLock.hpp)   *)
(* together with the parts of wjh::ProcessId (ProcessId.cpp) and of        *)
(* wjh::Atomic (Atomic.hpp) that the lock is built on, and of the          *)
(* operating system's process table that the liveness probe reads.         *)
(*                                                                         *)
(* Widths are scaled: TLC's integers are 32 bit, so the two halves of the  *)
(* packed identifier are taken modulo Pow32 / Pow64 (standing for 2^32 and *)
(* 2^64), and seconds are counted from a small epoch.                      *)
(***************************************************************************)
EXTENDS Integers, Sequences, FiniteSets, TLC

\* ------------------------------------------------------------------ bounds
\* process incarnations the operating system creates over a behaviour
NProcs == 3
\* distinct PIDs the operating system hands out (fewer than NProcs: reuse)
NPids == 2
\* threads that use the lock: every incarnation but the first has one, the
\* first incarnation has the others
NThreads == 4
\* processes start 0 .. MaxTick clock ticks after boot
MaxTick == 3
\* scaled stand-in for sysconf(_SC_CLK_TCK), clock ticks per second
Hz == 2
\* seconds by which the wall clock is stepped while the system runs; the btime
\* line of /proc/stat moves with it
ClockSteps == 1
\* scaled stand-in for the width of unsigned and int: the integer cells hold
\* 0 .. 2^Bits - 1
Bits == 4
\* threads of the tests that spin on a compare-exchange or run a long loop body
NSpin == 2
\* lines of /proc/stat, digits of a number in it
MaxLines == 3
MaxDigits == 2
\* the enlargements of the read buffer the largest file needs
MaxGrow == 2
\* size += 1024
BufStep == 1024
\* values a cell of the store, load and compare-exchange tests takes: 0 .. NVals - 1
NVals == 3
\* std::memory_order and the __ATOMIC_ constants (equal by the static_asserts)
memory_order_relaxed == 0
memory_order_consume == 1
memory_order_acquire == 2
memory_order_release == 3
memory_order_acq_rel == 4
memory_order_seq_cst == 5
\* lock(); counter++; unlock() rounds of each worker of the counter scenario
Iters == 2
\* scaled stand-ins for 2024-01-01 (epoch), 1'000'000, 2^32 and 2^64
epoch == 1
UsecPerSec == 2
Pow32 == 4
Pow64 == 16

\* ------------------------------------------------------------------ sets
Procs == 1 .. NProcs
Pids == 1 .. NPids
Threads == 1 .. NThreads
\* the threads of incarnation 1 are 1 .. MainThreads
MainThreads == NThreads - (NProcs - 1)
Ticks == 0 .. MaxTick
Layouts == {64, 128}
\* std::optional: the empty sequence is nullopt, <<x>> holds x
nullopt == <<>>
\* no process incarnation
NoProc == 0

\* the process incarnation a thread belongs to
ProcOf(t) == IF t <= MainThreads THEN 1 ELSE t - MainThreads + 1

VARIABLES
    layout,         \* 64 or 128: width of ProcessId::Value, fixed at build time
    os,             \* process table: os[p] = [state, pid, start (ticks since boot)]
    pid_,           \* ProcessIdLock::pid_, the lock cell (packed identifier)
    pc,             \* pc[t]: where thread t stands
    op,             \* op[t]: "try" (try_lock), "lock" (lock) or "none"
    expected,       \* expected[t]: the local `expected` of try_lock_impl
    counter,        \* SharedData::counter of the tests
    tmp,            \* tmp[t]: value read by counter++ before it writes
    left,           \* left[t]: rounds a worker of the counter scenario still owes
    obs,            \* history variable: the last try_lock_impl call, as a test observes it
    id,             \* id[p]: the function-local static `id` of ProcessId::current() in process p
    parent,         \* parent[p]: the incarnation whose fork() created p, or NoProc
    call,           \* the last call of a ProcessId function: its arguments and result
    boot,           \* boot[p]: the static `boot_time` of process p, read when p starts
    value_,         \* Atomic<T>::value_ of the cell the Atomic tests share
    std_,           \* the std::atomic<T> cell the tests compare with
    seen,           \* history variable: the values the fetch_add calls returned, in order
    todo,           \* todo[t]: rounds of its loop the test thread t still has to run
    stage,          \* stage[t]: the statement of the loop body thread t runs next (1, 2, ...)
    oldval          \* oldval[t]: the local `oldval` / `expected` of a compare-exchange loop

\* the locals of the threads of the Atomic tests
workVars == <<todo, stage, oldval>>

\* the variables of the Atomic tests
atomVars == <<value_, std_, seen, workVars>>

\* the variables of the lock, the process table and ProcessId
lockVars == <<layout, os, pid_, pc, op, expected, counter, tmp, left, obs, id, parent, boot>>

vars == <<layout, os, pid_, pc, op, expected, counter, tmp, left, obs, id, parent, call, boot,
          atomVars>>

\* ------------------------------------------------------------------ ProcessId
\* shift<Value>: the packed value is pid * 2^shift + low half
HalfMod(w) == IF w = 64 THEN Pow32 ELSE Pow64

\* faulty variant: a packing that leaves the PID out
value_from_NoPid(w, pid, tv) ==
    IF w = 64
    THEN (tv.sec - epoch) % Pow32
    ELSE (UsecPerSec * tv.sec + tv.usec) % Pow64

\* faulty variant: a 64-bit packing that does not truncate the seconds
value_from_Spill(w, pid, tv) ==
    IF w = 64
    THEN pid * HalfMod(w) + (tv.sec - epoch)
    ELSE pid * HalfMod(w) + ((UsecPerSec * tv.sec + tv.usec) % Pow64)

\* value_from<ValueT>(pid, tv) for a present tv
value_from(w, pid, tv) ==
    IF w = 64
    THEN pid * HalfMod(w) + ((tv.sec - epoch) % Pow32)
    ELSE pid * HalfMod(w) + ((UsecPerSec * tv.sec + tv.usec) % Pow64)

\* ProcessId::null()
null == 0

\* ProcessId::pid()
pid(w, v) == v \div HalfMod(w)

\* faulty variant: a start_time() that drops the microseconds in both layouts
start_time_NoUsec(w, v) ==
    IF w = 64
    THEN [sec |-> (epoch + (v % Pow32)) % Pow32, usec |-> 0]
    ELSE [sec |-> (v % Pow64) \div UsecPerSec, usec |-> 0]

\* ProcessId::start_time(); in the 64-bit layout `epoch + ticks` adds two
\* std::uint32_t, so the sum is taken modulo 2^32 before it becomes a time_t
start_time(w, v) ==
    IF w = 64
    THEN [sec |-> (epoch + (v % Pow32)) % Pow32, usec |-> 0]
    ELSE [sec |-> (v % Pow64) \div UsecPerSec, usec |-> (v % Pow64) % UsecPerSec]

\* ------------------------------------------------------------------ OS
\* the incarnation (running or zombie) that owns PID q now, or NoProc
OwnerOf(q) ==
    IF \E p \in Procs : os[p].pid = q /\ os[p].state \in {"running", "zombie"}
    THEN CHOOSE p \in Procs : os[p].pid = q /\ os[p].state \in {"running", "zombie"}
    ELSE NoProc

\* boot_time: the btime line of /proc/stat
boot_time == epoch

\* the conversion of field 22 of /proc/<pid>/stat (ticks since boot) to a timeval
TimevalOf(ticks) ==
    [sec |-> (ticks \div Hz) + boot_time, usec |-> (ticks % Hz) * (UsecPerSec \div Hz)]

\* faulty variant: a lookup that ignores the process state of field 3
start_time_of_AnyState(q) ==
    IF q \notin Pids \/ OwnerOf(q) = NoProc THEN nullopt
    ELSE <<TimevalOf(os[OwnerOf(q)].start)>>

\* start_time_of(pid): nullopt when /proc/<pid>/stat cannot be opened or
\* shows state Z or X, else the start time
start_time_of(q) ==
    IF q \notin Pids \/ OwnerOf(q) = NoProc THEN nullopt
    ELSE IF os[OwnerOf(q)].state = "zombie" THEN nullopt
    ELSE <<TimevalOf(os[OwnerOf(q)].start)>>

\* ProcessId::maybe(pid)
maybe(q) ==
    IF start_time_of(q) = nullopt THEN nullopt
    ELSE <<value_from(layout, q, start_time_of(q)[1])>>

\* ProcessId::current() in process incarnation p (running)
current(p) == value_from(layout, os[p].pid, TimevalOf(os[p].start))

\* ------------------------------------------------------------------ Atomic
\* faulty variants: a compare-exchange that always or never reports success
CasOk_Always(cell, exp) == TRUE

CasOk_Never(cell, exp) == FALSE

\* faulty variant: a failed compare-exchange that leaves `expected` as it was
CasExpected_Keep(cell, exp) == exp

\* faulty variant: a plain store in place of the compare-exchange
CasCell_Store(cell, exp, des) == des

\* Atomic<T>::compare_exchange_strong: success, new cell, new expected
CasOk(cell, exp) == cell = exp
CasCell(cell, exp, des) == IF cell = exp THEN des ELSE cell
CasExpected(cell, exp) == IF cell = exp THEN exp ELSE cell

\* ------------------------------------------------------------------ history
\* obs describes one call of try_lock_impl and what came before it:
\*   caller, op   the calling thread and its operation ("try" or "lock")
\*   cell0        the lock cell when the call began
\*   mate         how another thread of the caller's process that held the lock
\*                then had acquired it ("try", "lock"), or "none"
\*   judge        what the liveness probe met: "none" (no probe), "alive",
\*                "gone", "reused", "failed" (probe failed, holder alive),
\*                "failedOther" (probe failed, the PID belongs to a newer process)
\*   ret, cellRet the result ("none" while the call runs) and the cell at return
\*   before       the operation completed last before the call: [who, what, by]
\*   wasRefused   `refused` when the call began
\*   last         the operation completed last: what is "true", "false",
\*                "refused" (false without a probe), "unlock" or "asserted"
\*                (an unlock whose assert(released) fails, recorded by
\*                DebugUnlock only); by is the
\*                operation of a call, and how the lock an unlock released
\*                had been acquired
\*   refused      a call was refused without a probe since the last acquisition
\*   holder, how  the incarnation that wrote the cell's value, and by which operation

NoOp == [who |-> 0, what |-> "none", by |-> "none"]

NoObs ==
    [caller |-> 0, op |-> "none", cell0 |-> null, mate |-> "none", judge |-> "none",
     ret |-> "none", cellRet |-> null, before |-> NoOp, wasRefused |-> FALSE,
     last |-> NoOp, refused |-> FALSE, holder |-> NoProc, how |-> "none"]

\* ------------------------------------------------------------------ Init
\* the static of current() before its initialisation; by tells what wrote it:
\* the initialiser ("call") or the pthread_atfork child handler ("atfork")
NoId == [set |-> FALSE, value |-> null, by |-> "none"]

NoCall == [fn |-> "none"]

\* no Atomic test runs
NoWorkers ==
    /\ todo = <<>>
    /\ stage = <<>>
    /\ oldval = <<>>

NoAtomic == value_ = 0 /\ std_ = 0 /\ seen = <<>> /\ NoWorkers

Unborn == [state |-> "unborn", pid |-> 0, start |-> 0]

InitLock ==
    /\ layout \in Layouts
    /\ os = [p \in Procs |-> IF p = 1 THEN [state |-> "running", pid |-> 1, start |-> 0]
                                ELSE Unborn]
    /\ pid_ = null
    /\ pc = [t \in Threads |-> IF ProcOf(t) = 1 THEN "idle" ELSE "dead"]
    /\ op = [t \in Threads |-> "none"]
    /\ expected = [t \in Threads |-> null]
    /\ counter = 0
    /\ tmp = [t \in Threads |-> 0]
    /\ left = [t \in Threads |-> 0]
    /\ obs = NoObs
    /\ id = [p \in Procs |-> NoId]
    /\ parent = [p \in Procs |-> NoProc]
    /\ call = NoCall
    /\ boot = [p \in Procs |-> boot_time]

Init == InitLock /\ NoAtomic

\* ------------------------------------------------------------------ OS actions
\* the incarnations that owned PID q and are gone
PastOwners(q) == {r \in Procs : os[r].pid = q /\ os[r].state = "reaped"}

\* the PIDs no incarnation has had yet
FreshPids == {q \in Pids : \A r \in Procs : os[r].pid # q}

\* fork/exec of a new process: it gets the next fresh PID, or a PID whose owner
\* was reaped; the first owner of a PID starts at tick 0, a later owner starts
\* at a later tick than every earlier owner of the PID
NewProcess(p) ==
    /\ os[p].state = "unborn"
    /\ \A r \in Procs : r < p => os[r].state # "unborn"
    /\ \E q \in Pids, tk \in Ticks :
         /\ OwnerOf(q) = NoProc
         /\ IF PastOwners(q) = {}
            THEN tk = 0 /\ \A f \in FreshPids : q <= f
            ELSE \A r \in PastOwners(q) : os[r].start < tk
         /\ os' = [os EXCEPT ![p] = [state |-> "running", pid |-> q, start |-> tk]]
    /\ pc' = [t \in Threads |-> IF ProcOf(t) = p THEN "idle" ELSE pc[t]]
    /\ UNCHANGED <<layout, pid_, op, expected, counter, tmp, left>>

\* a process created by someone who is not modelled: its parent and its copy of
\* the static of current() are left out (the lock scenarios take current(p))
Spawn(p) == NewProcess(p) /\ UNCHANGED <<atomVars, id, parent, call, boot>>

\* _exit or a crash at any point: the process becomes a zombie, its threads end
Exit(p) ==
    /\ os[p].state = "running"
    /\ os' = [os EXCEPT ![p].state = "zombie"]
    /\ pc' = [t \in Threads |-> IF ProcOf(t) = p THEN "dead" ELSE pc[t]]
    /\ op' = [t \in Threads |-> IF ProcOf(t) = p THEN "none" ELSE op[t]]
    /\ expected' = [t \in Threads |-> IF ProcOf(t) = p THEN null ELSE expected[t]]
    /\ tmp' = [t \in Threads |-> IF ProcOf(t) = p THEN 0 ELSE tmp[t]]
    /\ UNCHANGED <<atomVars, boot, id, parent, call, layout, pid_, counter, left>>

\* waitpid by the parent: the zombie is reaped and its PID may be reused
Reap(p) ==
    /\ os[p].state = "zombie"
    /\ os' = [os EXCEPT ![p].state = "reaped"]
    /\ UNCHANGED <<atomVars, boot, id, parent, call, layout, pid_, pc, op, expected, counter, tmp, left>>

\* ------------------------------------------------------------------ lock
\* faulty variant: a forked child goes on with the identifier of its parent
me_Inherited(t) ==
    IF parent[ProcOf(t)] # NoProc THEN current(parent[ProcOf(t)]) ELSE current(ProcOf(t))

\* PID::current() in the process of thread t
me(t) == current(ProcOf(t))

\* faulty variant: lock gives up after a failed attempt
Failed_Returns(t) ==
    /\ pc' = [pc EXCEPT ![t] = "idle"]
    /\ op' = [op EXCEPT ![t] = "none"]
    /\ expected' = [expected EXCEPT ![t] = null]

\* faulty variant: try_lock retries after a failed attempt as lock does
Failed_Retries(t) ==
    /\ pc' = [pc EXCEPT ![t] = "cas1"]
    /\ op' = op
    /\ expected' = [expected EXCEPT ![t] = null]

\* a failed try_lock_impl: try_lock returns false, lock yields and retries
Failed(t) ==
    /\ pc' = [pc EXCEPT ![t] = IF op[t] = "lock" THEN "cas1" ELSE "idle"]
    /\ op' = [op EXCEPT ![t] = IF op[t] = "lock" THEN "lock" ELSE "none"]
    /\ expected' = [expected EXCEPT ![t] = null]

\* a successful try_lock_impl: try_lock returns true, lock returns
Acquired(t) ==
    /\ pc' = [pc EXCEPT ![t] = "held"]
    /\ op' = [op EXCEPT ![t] = "none"]
    /\ expected' = [expected EXCEPT ![t] = null]

\* ProcessIdLock::try_lock
TryLock(t) ==
    /\ pc[t] = "idle"
    /\ pc' = [pc EXCEPT ![t] = "cas1"]
    /\ op' = [op EXCEPT ![t] = "try"]
    /\ UNCHANGED <<atomVars, boot, id, parent, call, layout, os, pid_, expected, counter, tmp, left>>

\* ProcessIdLock::lock
Lock(t) ==
    /\ pc[t] = "idle"
    /\ pc' = [pc EXCEPT ![t] = "cas1"]
    /\ op' = [op EXCEPT ![t] = "lock"]
    /\ UNCHANGED <<atomVars, boot, id, parent, call, layout, os, pid_, expected, counter, tmp, left>>

\* faulty variant: the caller's own identifier is probed like any other
IsOther_Always(exp, m) == TRUE

\* the test `expected != me`
IsOther(exp, m) == exp # m

\* try_lock_impl: exchange(expected = null, me), then the test expected != me
Cas1(t) ==
    /\ pc[t] = "cas1"
    /\ pid_' = CasCell(pid_, null, me(t))
    /\ IF CasOk(pid_, null) THEN Acquired(t)
       ELSE IF IsOther(CasExpected(pid_, null), me(t))
            THEN /\ pc' = [pc EXCEPT ![t] = "probe"]
                 /\ expected' = [expected EXCEPT ![t] = CasExpected(pid_, null)]
                 /\ UNCHANGED op
            ELSE Failed(t)
    /\ UNCHANGED <<atomVars, boot, id, parent, call, layout, os, counter, tmp, left>>

\* faulty variants: a probe that returns nothing leaves the holder alive, and
\* every holder is taken for dead
JudgedDead_NotFoundAlive(p, exp) == p # nullopt /\ exp # p[1]

JudgedDead_Always(p, exp) == TRUE

\* the test `not p || expected != *p` on the result p of the probe
JudgedDead(p, exp) == p = nullopt \/ exp # p[1]

\* try_lock_impl after the probe returned p
AfterProbe(t, p) ==
    /\ IF JudgedDead(p, expected[t])
       THEN /\ pc' = [pc EXCEPT ![t] = "reset"]
            /\ UNCHANGED <<op, expected>>
       ELSE Failed(t)
    /\ UNCHANGED <<atomVars, boot, id, parent, call, layout, os, pid_, counter, tmp, left>>

\* try_lock_impl: p = ProcessId::maybe(expected.pid())
Probe(t) ==
    /\ pc[t] = "probe"
    /\ AfterProbe(t, maybe(pid(layout, expected[t])))

\* the same probe failing although the process is there (open() fails:
\* permission denied, no descriptor left)
ProbeFail(t) ==
    /\ pc[t] = "probe"
    /\ maybe(pid(layout, expected[t])) # nullopt
    /\ AfterProbe(t, nullopt)

\* faulty variant: the dead holder's identifier is left in the cell
Reset_NoStore(t) ==
    /\ pc[t] = "reset"
    /\ pc' = [pc EXCEPT ![t] = "cas2"]
    /\ expected' = [expected EXCEPT ![t] = null]
    /\ UNCHANGED <<atomVars, boot, id, parent, call, layout, os, pid_, op, counter, tmp, left>>

\* faulty variant: the reset stores null whatever the cell holds
Reset_Store(t) ==
    /\ pc[t] = "reset"
    /\ pid_' = null
    /\ pc' = [pc EXCEPT ![t] = "cas2"]
    /\ expected' = [expected EXCEPT ![t] = null]
    /\ UNCHANGED <<atomVars, boot, id, parent, call, layout, os, op, counter, tmp, left>>

\* try_lock_impl: exchange(expected, null), result ignored
Reset(t) ==
    /\ pc[t] = "reset"
    /\ pid_' = CasCell(pid_, expected[t], null)
    /\ pc' = [pc EXCEPT ![t] = "cas2"]
    /\ expected' = [expected EXCEPT ![t] = null]
    /\ UNCHANGED <<atomVars, boot, id, parent, call, layout, os, op, counter, tmp, left>>

\* try_lock_impl: expected = null; exchange(expected, me)
Cas2(t) ==
    /\ pc[t] = "cas2"
    /\ pid_' = CasCell(pid_, null, me(t))
    /\ IF CasOk(pid_, null) THEN Acquired(t) ELSE Failed(t)
    /\ UNCHANGED <<atomVars, boot, id, parent, call, layout, os, counter, tmp, left>>

\* unlock: released = exchange(me, PID::null()), the value assert() tests
released(t) == CasOk(pid_, me(t))

\* faulty variant: an unlock that stores null whatever the cell holds
Unlock_Store(t) ==
    /\ pc[t] = "held"
    /\ pid_' = null
    /\ pc' = [pc EXCEPT ![t] = "idle"]
    /\ UNCHANGED <<atomVars, boot, id, parent, call, layout, os, op, expected, counter, tmp, left>>

\* faulty variant: an unlock that leaves the cell as it is
Unlock_NoRelease(t) ==
    /\ pc[t] = "held"
    /\ pc' = [pc EXCEPT ![t] = "idle"]
    /\ UNCHANGED <<atomVars, boot, id, parent, call, layout, os, pid_, op, expected, counter, tmp, left>>

\* ProcessIdLock::unlock by the thread that holds the lock
Unlock(t) ==
    /\ pc[t] = "held"
    /\ pid_' = CasCell(pid_, me(t), null)
    /\ pc' = [pc EXCEPT ![t] = "idle"]
    /\ UNCHANGED <<atomVars, boot, id, parent, call, layout, os, op, expected, counter, tmp, left>>

\* ------------------------------------------------------------------ Spec
\* every interleaving of the processes' and threads' steps
Next ==
    \/ \E p \in Procs : Spawn(p) /\ UNCHANGED obs
    \/ \E p \in Procs : Exit(p) /\ UNCHANGED obs
    \/ \E p \in Procs : Reap(p) /\ UNCHANGED obs
    \/ \E t \in Threads : TryLock(t) /\ UNCHANGED obs
    \/ \E t \in Threads : Lock(t) /\ UNCHANGED obs
    \/ \E t \in Threads : Cas1(t) /\ UNCHANGED obs
    \/ \E t \in Threads : Probe(t) /\ UNCHANGED obs
    \/ \E t \in Threads : Reset(t) /\ UNCHANGED obs
    \/ \E t \in Threads : Cas2(t) /\ UNCHANGED obs
    \/ \E t \in Threads : Unlock(t) /\ UNCHANGED obs

Spec == Init /\ [][Next]_vars

\* ------------------------------------------------------------------ one call at a time
\* The calls of try_lock_impl do not overlap ("no other caller touches the lock
\* during the call"); processes are still created, exit and are reaped at any
\* moment.  obs records each call.
InAttempt(t) == pc[t] \in {"probe", "reset", "cas2"}

Alone(t) == \A u \in Threads \ {t} : ~InAttempt(u)

\* what the probe of thread t meets in the process table
Judge(t) ==
    LET q == pid(layout, expected[t])
        o == IF q \in Pids THEN OwnerOf(q) ELSE NoProc
    IN  IF o = NoProc \/ os[o].state # "running" THEN "gone"
        ELSE IF o = obs.holder THEN "alive" ELSE "reused"

\* the threads that use the lock: those of the first two incarnations; a later
\* incarnation is a bystander that only takes a PID
Users == {t \in Threads : ProcOf(t) <= 2}

\* the end of a call of thread t in this step, and its result
Returned(t) == pc'[t] \in {"held", "idle", "cas1"}

Result(t) == IF pc'[t] = "held" THEN "true" ELSE "false"

\* obs after a step of the call of thread t that may end it
Observed(t, o) ==
    IF Returned(t)
    THEN [o EXCEPT !.ret = Result(t),
                   !.cellRet = pid_',
                   !.last = [who |-> t, by |-> op[t],
                             what |-> IF o.judge = "none" /\ Result(t) = "false"
                                      THEN "refused" ELSE Result(t)],
                   !.refused = IF Result(t) = "true" THEN FALSE
                               ELSE IF o.judge = "none" THEN TRUE ELSE @,
                   !.holder = IF Result(t) = "true" THEN ProcOf(t) ELSE @,
                   !.how = IF Result(t) = "true" THEN op[t] ELSE @]
    ELSE o

\* obs describes a call while it runs and in the state it returns to; the
\* next step of anyone forgets the call and keeps last, refused, holder and how
Forget(o) ==
    IF o.ret = "none" THEN o
    ELSE [o EXCEPT !.caller = 0, !.op = "none", !.cell0 = null, !.mate = "none",
                   !.judge = "none", !.ret = "none", !.cellRet = null, !.before = NoOp,
                   !.wasRefused = FALSE]

AloneSpawn(p) == Spawn(p) /\ obs' = Forget(obs)

AloneExit(p) == Exit(p) /\ obs' = Forget(obs)

AloneReap(p) == Reap(p) /\ obs' = Forget(obs)

AloneTryLock(t) == t \in Users /\ TryLock(t) /\ obs' = Forget(obs)

AloneLock(t) == t \in Users /\ Lock(t) /\ obs' = Forget(obs)

AloneCas1(t) ==
    /\ Alone(t)
    /\ Cas1(t)
    /\ obs' = Observed(t, [obs EXCEPT
                 !.caller = t, !.op = op[t], !.cell0 = pid_,
                 !.mate = IF \E u \in Threads \ {t} : ProcOf(u) = ProcOf(t) /\ pc[u] = "held"
                          THEN obs.how ELSE "none",
                 !.judge = "none", !.ret = "none", !.cellRet = null,
                 !.before = obs.last, !.wasRefused = obs.refused])

AloneProbe(t) ==
    /\ Probe(t)
    /\ obs' = Observed(t, [obs EXCEPT !.judge = Judge(t)])

AloneProbeFail(t) ==
    /\ ProbeFail(t)
    /\ obs' = Observed(t, [obs EXCEPT !.judge = IF Judge(t) = "alive" THEN "failed"
                                                 ELSE "failedOther"])

AloneReset(t) ==
    /\ Reset(t)
    /\ obs' = [obs EXCEPT !.holder = IF CasOk(pid_, expected[t]) THEN NoProc ELSE @]

AloneCas2(t) ==
    /\ Cas2(t)
    /\ obs' = Observed(t, obs)

AloneUnlock(t) ==
    /\ Alone(t)
    /\ Unlock(t)
    /\ obs' = [Forget(obs) EXCEPT !.last = [who |-> t, what |-> "unlock", by |-> obs.how],
                                  !.holder = IF released(t) THEN NoProc ELSE @]

NextAlone ==
    \/ \E p \in Procs : AloneSpawn(p)
    \/ \E p \in Procs : AloneExit(p)
    \/ \E p \in Procs : AloneReap(p)
    \/ \E t \in Threads : AloneTryLock(t)
    \/ \E t \in Threads : AloneLock(t)
    \/ \E t \in Threads : AloneCas1(t)
    \/ \E t \in Threads : AloneProbe(t)
    \/ \E t \in Threads : AloneReset(t)
    \/ \E t \in Threads : AloneCas2(t)
    \/ \E t \in Threads : AloneUnlock(t)

SpecAlone == Init /\ [][NextAlone]_vars

\* the same, where a probe of a live process may fail
NextAloneFail ==
    \/ NextAlone
    \/ \E t \in Threads : AloneProbeFail(t)

SpecAloneFail == Init /\ [][NextAloneFail]_vars

\* ------------------------------------------------------------------ debug build
\* Every interleaving of the calls, probes that may fail included; obs holds
\* nothing but the outcome of assert(released) of the last step, if that step
\* was an unlock.
DebugUnlock(t) ==
    /\ Unlock(t)
    /\ obs' = [NoObs EXCEPT !.last = [who |-> t, by |-> "none",
                                      what |-> IF released(t) THEN "unlock" ELSE "asserted"]]

NextDebug ==
    \/ \E p \in Procs : Spawn(p) /\ obs' = NoObs
    \/ \E p \in Procs : Exit(p) /\ obs' = NoObs
    \/ \E p \in Procs : Reap(p) /\ obs' = NoObs
    \/ \E t \in Users : TryLock(t) /\ obs' = NoObs
    \/ \E t \in Users : Lock(t) /\ obs' = NoObs
    \/ \E t \in Threads : Cas1(t) /\ obs' = NoObs
    \/ \E t \in Threads : Probe(t) /\ obs' = NoObs
    \/ \E t \in Threads : ProbeFail(t) /\ obs' = NoObs
    \/ \E t \in Threads : Reset(t) /\ obs' = NoObs
    \/ \E t \in Threads : Cas2(t) /\ obs' = NoObs
    \/ \E t \in Threads : DebugUnlock(t)

SpecDebug == Init /\ [][NextDebug]_vars

\* ------------------------------------------------------------------ fork
\* faulty variant: no child handler, the child keeps the copy of its parent's static
child_id_Copy(par, v) == id[par]

\* the static of current() in a child of par whose own identifier is v: the
\* child handler `id = ProcessId{::getpid()}` is registered by the initialiser
\* of the static, so it runs exactly when the parent's copy is initialised
child_id(par, v) ==
    IF id[par].set THEN [set |-> TRUE, value |-> v, by |-> "atfork"] ELSE id[par]

\* fork() in process par creates process p
Fork(par, p) ==
    /\ os[par].state = "running"
    /\ NewProcess(p)
    /\ id' = [id EXCEPT ![p] = child_id(par, value_from(layout, os'[p].pid,
                                                        TimevalOf(os'[p].start)))]
    /\ parent' = [parent EXCEPT ![p] = par]
    /\ UNCHANGED <<atomVars, call, obs, boot>>

\* ProcessId::current() called in process p
Current(p) ==
    /\ os[p].state = "running"
    /\ id' = [id EXCEPT ![p] = IF @.set THEN @
                               ELSE [set |-> TRUE, value |-> current(p), by |-> "call"]]
    /\ call' = [fn |-> "current", who |-> p, ret |-> id'[p].value]
    /\ UNCHANGED <<atomVars, layout, os, pid_, pc, op, expected, counter, tmp, left, obs, parent, boot>>

NextFork ==
    \/ \E par, p \in Procs : Fork(par, p)
    \/ \E p \in Procs : Current(p)
    \/ \E p \in Procs : Exit(p) /\ UNCHANGED obs
    \/ \E p \in Procs : Reap(p) /\ UNCHANGED obs

SpecFork == Init /\ [][NextFork]_vars

\* ------------------------------------------------------------------ unlock by anyone
\* Every interleaving of the calls where processes are created by fork and
\* unlock is also called by threads that do not hold the lock: another thread
\* of the holder's process, or the thread of a child that was forked while its
\* parent held the lock. obs holds the last unlock: the caller, the cell
\* before and after, and the outcome of assert(released).
UnlockObs(t) ==
    [NoObs EXCEPT !.caller = t, !.cell0 = pid_, !.cellRet = pid_',
                  !.last = [who |-> t, by |-> "none",
                            what |-> IF released(t) THEN "unlock" ELSE "asserted"]]

\* faulty variant: unlock releases only what the calling thread acquired
AnyUnlock_OwnOnly(t) ==
    /\ pc[t] = "idle"
    /\ UNCHANGED <<atomVars, boot, id, parent, call, layout, os, pid_, pc, op, expected,
                   counter, tmp, left>>
    /\ obs' = [UnlockObs(t) EXCEPT !.last.what = "asserted"]

\* ProcessIdLock::unlock by a thread that is not the one that acquired
AnyUnlock(t) ==
    /\ pc[t] = "idle"
    /\ pid_' = CasCell(pid_, me(t), null)
    /\ obs' = UnlockObs(t)
    /\ UNCHANGED <<atomVars, boot, id, parent, call, layout, os, pc, op, expected,
                   counter, tmp, left>>

NextAny ==
    \/ \E par, p \in Procs : Fork(par, p)
    \/ \E p \in Procs : Exit(p) /\ UNCHANGED obs
    \/ \E p \in Procs : Reap(p) /\ UNCHANGED obs
    \/ \E t \in Users : TryLock(t) /\ UNCHANGED obs
    \/ \E t \in Users : Lock(t) /\ UNCHANGED obs
    \/ \E t \in Threads : Cas1(t) /\ UNCHANGED obs
    \/ \E t \in Threads : Probe(t) /\ UNCHANGED obs
    \/ \E t \in Threads : Reset(t) /\ UNCHANGED obs
    \/ \E t \in Threads : Cas2(t) /\ UNCHANGED obs
    \/ \E t \in Threads : Unlock(t) /\ obs' = UnlockObs(t)
    \/ \E t \in Users : AnyUnlock(t)

SpecAny == Init /\ [][NextAny]_vars

\* ------------------------------------------------------------------ ProcessId calls
\* The functions of ProcessId applied to arguments of every kind, while
\* processes are created, exit and are reaped.
\* pid_t arguments: 0, the PIDs of the process table and PIDs no process has
PidArgs == 0 .. Pow32 - 1

\* timeval arguments: seconds from before the epoch to the end of the second
\* 32-bit window after it
Timevals == [sec : 0 .. epoch + 2 * Pow32 - 1, usec : 0 .. UsecPerSec - 1]

\* what start_time_of(q) can return: its result for the process table as it is,
\* or nullopt because the file cannot be opened or read
Lookups(q) == {start_time_of(q), nullopt}

\* faulty variant: a failed lookup yields the null identifier
maybe_with_Null(q, st) ==
    IF st = nullopt THEN <<null>> ELSE <<value_from(layout, q, st[1])>>

\* ProcessId::maybe(pid) where start_time_of(pid) returned st
maybe_with(q, st) ==
    IF st = nullopt THEN nullopt ELSE <<value_from(layout, q, st[1])>>

\* value_from<Value>(pid, tv) for an optional tv: throws std::runtime_error
\* when tv is empty
value_from_optional(q, tv) ==
    IF tv = nullopt THEN [threw |-> TRUE, value |-> null]
    ELSE [threw |-> FALSE, value |-> value_from(layout, q, tv[1])]

\* ProcessId::maybe(q)
Maybe(q) ==
    /\ \E st \in Lookups(q) :
          call' = [fn |-> "maybe", pid |-> q, st |-> st, ret |-> maybe_with(q, st)]
    /\ UNCHANGED <<atomVars, layout, os, pid_, pc, op, expected, counter, tmp, left, obs, id, parent, boot>>

\* ProcessId(q), the constructor that looks the start time up
Construct(q) ==
    /\ \E st \in Lookups(q) :
          call' = [fn |-> "ProcessId(pid)", pid |-> q, st |-> st,
                   ret |-> value_from_optional(q, st)]
    /\ UNCHANGED <<atomVars, layout, os, pid_, pc, op, expected, counter, tmp, left, obs, id, parent, boot>>

\* ProcessId(q, tv), the constructor that is given the start time
ConstructAt(q, tv) ==
    /\ call' = [fn |-> "ProcessId(pid, tv)", pid |-> q, tv |-> tv,
                ret |-> value_from_optional(q, <<tv>>)]
    /\ UNCHANGED <<atomVars, layout, os, pid_, pc, op, expected, counter, tmp, left, obs, id, parent, boot>>

NextId ==
    \/ \E p \in Procs : Spawn(p) /\ UNCHANGED obs
    \/ \E p \in Procs : Exit(p) /\ UNCHANGED obs
    \/ \E p \in Procs : Reap(p) /\ UNCHANGED obs
    \/ \E q \in PidArgs : Maybe(q)
    \/ \E q \in PidArgs : Construct(q)

SpecId == Init /\ [][NextId]_vars

\* the packing alone: identifiers made from every PID and start time
NextPack == \E q \in PidArgs, tv \in Timevals : ConstructAt(q, tv)

SpecPack == Init /\ [][NextPack]_vars

\* ------------------------------------------------------------------ boot time
\* `static ::time_t const boot_time = get_boot_time()` is read from the btime
\* line of /proc/stat once by every process when it starts; the line is the
\* wall clock minus the uptime, so it changes when the wall clock is stepped.
BootTimes == boot_time .. boot_time + ClockSteps

\* the timeval conversion of start_time_of in a process whose boot_time is bt
TimevalFrom(bt, ticks) ==
    [sec |-> (ticks \div Hz) + bt, usec |-> (ticks % Hz) * (UsecPerSec \div Hz)]

\* ProcessId::maybe(q) called in process p
maybe_in(p, q) ==
    IF start_time_of(q) = nullopt THEN nullopt
    ELSE <<value_from(layout, q, TimevalFrom(boot[p], os[OwnerOf(q)].start))>>

\* fork and exec: the new program reads the btime line as it is then
Exec(p) ==
    /\ NewProcess(p)
    /\ \E bt \in BootTimes : boot' = [boot EXCEPT ![p] = bt]
    /\ UNCHANGED <<atomVars, id, parent, call, obs>>

\* ProcessId::maybe(q) called in the running process p
MaybeIn(p, q) ==
    /\ os[p].state = "running"
    /\ call' = [fn |-> "maybe", who |-> p, pid |-> q, owner |-> OwnerOf(q),
                ret |-> maybe_in(p, q)]
    /\ UNCHANGED <<atomVars, layout, os, pid_, pc, op, expected, counter, tmp, left, obs, id, parent, boot>>

NextBoot ==
    \/ \E p \in Procs : Exec(p)
    \/ \E p \in Procs : Exit(p) /\ UNCHANGED obs
    \/ \E p \in Procs : Reap(p) /\ UNCHANGED obs
    \/ \E p \in Procs, q \in Pids : MaybeIn(p, q)

SpecBoot == Init /\ [][NextBoot]_vars

\* ------------------------------------------------------------------ Atomic<T> store and load
CellValues == 0 .. NVals - 1

Orders == {memory_order_relaxed, memory_order_consume, memory_order_acquire,
           memory_order_release, memory_order_acq_rel, memory_order_seq_cst}

\* T is fundamental (std::is_fundamental_v<T>) or a struct such as ProcessId
Kinds == {"fundamental", "struct"}

\* native_order<Orders...>(order): the assert passes when order is one of Orders
native_order(allowed, order) == order \in allowed

\* the orders store() hands to native_order in each branch of `if constexpr`
StoreOrders(T) ==
    IF T = "fundamental"
    THEN {memory_order_relaxed, memory_order_release, memory_order_seq_cst}
    ELSE {memory_order_relaxed, memory_order_acquire, memory_order_consume,
          memory_order_seq_cst}

\* the orders load() hands to native_order, the same in both branches
LoadOrders ==
    {memory_order_relaxed, memory_order_acquire, memory_order_consume, memory_order_seq_cst}

\* what a call whose assert fails can do: a debug build aborts before the
\* builtin, a build with NDEBUG has no assert and runs the builtin
Builds(passes) == IF passes THEN {TRUE} ELSE {TRUE, FALSE}

InitCell == InitLock /\ value_ \in CellValues /\ std_ = 0 /\ seen = <<>> /\ NoWorkers

\* faulty variant: a store that writes nothing when the order is relaxed
Stored_NotRelaxed(desired, order, done) ==
    IF done /\ order # memory_order_relaxed THEN desired ELSE value_

\* the cell after store(desired, order)
Stored(desired, order, done) == IF done THEN desired ELSE value_

\* Atomic<T>::store(desired, order)
Store(T, desired, order) ==
    /\ \E done \in Builds(native_order(StoreOrders(T), order)) :
          /\ value_' = Stored(desired, order, done)
          /\ call' = [fn |-> "store", T |-> T, arg |-> desired, order |-> order,
                      asserted |-> ~native_order(StoreOrders(T), order), done |-> done]
    /\ UNCHANGED <<lockVars, std_, seen, workVars>>

\* Atomic<T>::load(order)
Load(T, order) ==
    /\ \E done \in Builds(native_order(LoadOrders, order)) :
          call' = [fn |-> "load", T |-> T, order |-> order,
                   asserted |-> ~native_order(LoadOrders, order), done |-> done,
                   ret |-> value_,
                   last |-> IF call.fn = "store" THEN call ELSE NoCall]
    /\ UNCHANGED <<lockVars, atomVars>>

NextCell ==
    \/ \E T \in Kinds, v \in CellValues, o \in Orders : Store(T, v, o)
    \/ \E T \in Kinds, o \in Orders : Load(T, o)

SpecCell == InitCell /\ [][NextCell]_vars

\* ------------------------------------------------------------------ Atomic<T> compare-exchange
\* the orders compare_exchange_impl hands to native_order for `fail`
FailOrders ==
    {memory_order_relaxed, memory_order_consume, memory_order_acquire, memory_order_seq_cst}

\* faulty variant: no comparison of the two orders
OrdersPass_NoCompare(success, fail) == native_order(FailOrders, fail)

\* the two asserts of compare_exchange_impl: native_order for `fail`, then
\* assert(sorder >= forder) on the numbers of the two orders
OrdersPass(success, fail) == native_order(FailOrders, fail) /\ success >= fail

\* compare_exchange_weak / compare_exchange_strong (expected, desired, success, fail);
\* a weak compare-exchange may fail although the cell equals expected
CompareExchange(exp, des, weak, success, fail) ==
    /\ \E done \in Builds(OrdersPass(success, fail)),
          spurious \in (IF weak THEN {TRUE, FALSE} ELSE {FALSE}) :
          /\ value_' = IF done /\ ~spurious THEN CasCell(value_, exp, des) ELSE value_
          /\ call' = [fn |-> "compare_exchange", weak |-> weak, cell0 |-> value_,
                      exp |-> exp, des |-> des, success |-> success, fail |-> fail,
                      asserted |-> ~OrdersPass(success, fail), done |-> done,
                      ret |-> done /\ ~spurious /\ CasOk(value_, exp),
                      expOut |-> IF done THEN CasExpected(value_, exp) ELSE exp]
    /\ UNCHANGED <<lockVars, std_, seen, workVars>>

\* the overloads with one order pass it for success and for fail; the calls
\* with two orders ask for expected + 1, as the tests do
NextCas ==
    \/ \E exp, des \in CellValues, weak \in BOOLEAN, order \in Orders :
          CompareExchange(exp, des, weak, order, order)
    \/ \E exp \in CellValues, weak \in BOOLEAN, success, fail \in Orders :
          CompareExchange(exp, (exp + 1) % NVals, weak, success, fail)

SpecCas == InitCell /\ [][NextCas]_vars

\* ------------------------------------------------------------------ Atomic<T> arithmetic
WordMod == 2 ^ Bits

Words == 0 .. WordMod - 1

\* a & b, a | b and a ^ b, bit by bit
RECURSIVE BitOp(_, _, _, _)
BitOp(f, a, b, n) ==
    IF n = 0 THEN 0
    ELSE LET x == a % 2
             y == b % 2
             bit == CASE f = "and" -> IF x = 1 /\ y = 1 THEN 1 ELSE 0
                      [] f = "or"  -> IF x = 1 \/ y = 1 THEN 1 ELSE 0
                      [] f = "xor" -> IF x # y THEN 1 ELSE 0
         IN  bit + 2 * BitOp(f, a \div 2, b \div 2, n - 1)

\* faulty variant: an addition that saturates instead of wrapping
Combine_Saturate(f, old, arg) ==
    CASE f = "add" -> IF old + arg >= WordMod THEN WordMod - 1 ELSE old + arg
      [] f = "sub" -> IF old < arg THEN 0 ELSE old - arg
      [] OTHER -> BitOp(f, old, arg, Bits)

\* the value __atomic_fetch_add, _sub, _and, _or, _xor leave in the cell, and
\* the value of `old + arg`, `old - arg`, `old & arg` ... converted to T
Combine(f, old, arg) ==
    CASE f = "add" -> (old + arg) % WordMod
      [] f = "sub" -> (old - arg) % WordMod
      [] OTHER -> BitOp(f, old, arg, Bits)

\* the member functions: the builtin each one calls, and whether it returns
\* what the builtin returned (the old value) or combines it with arg again
Members ==
    [fetch_add |-> [f |-> "add", new |-> FALSE], fetch_sub |-> [f |-> "sub", new |-> FALSE],
     fetch_and |-> [f |-> "and", new |-> FALSE], fetch_or |-> [f |-> "or", new |-> FALSE],
     fetch_xor |-> [f |-> "xor", new |-> FALSE],
     add_assign |-> [f |-> "add", new |-> TRUE], sub_assign |-> [f |-> "sub", new |-> TRUE],
     and_assign |-> [f |-> "and", new |-> TRUE], or_assign |-> [f |-> "or", new |-> TRUE],
     xor_assign |-> [f |-> "xor", new |-> TRUE],
     pre_inc |-> [f |-> "add", new |-> TRUE], post_inc |-> [f |-> "add", new |-> FALSE],
     pre_dec |-> [f |-> "sub", new |-> TRUE], post_dec |-> [f |-> "sub", new |-> FALSE]]

\* ++ and -- pass D(1)
Unary == {"pre_inc", "post_inc", "pre_dec", "post_dec"}

ArgsOf(m) == IF m \in Unary THEN {1} ELSE Words

\* faulty variant: every member returns what the builtin returned
MemberResult_Old(m, old, arg) == old

\* what member m returns when its builtin returned old
MemberResult(m, old, arg) ==
    IF Members[m].new THEN Combine(Members[m].f, old, arg) ELSE old

InitWord == InitLock /\ value_ \in Words /\ std_ = 0 /\ seen = <<>> /\ NoWorkers

\* one call of member m with argument arg: one atomic read-modify-write, then
\* arithmetic on the returned value
Member(m, arg) ==
    /\ value_' = Combine(Members[m].f, value_, arg)
    /\ call' = [fn |-> m, arg |-> arg, cell0 |-> value_,
                ret |-> MemberResult(m, value_, arg)]
    /\ UNCHANGED <<lockVars, std_, seen, workVars>>

NextWord == \E m \in DOMAIN Members : \E arg \in ArgsOf(m) : Member(m, arg)

SpecWord == InitWord /\ [][NextWord]_vars

\* ------------------------------------------------------------------ concurrent increment test
\* run_threads(worker, increments): every thread runs
\*   for (i = 0; i < increments; i++) counter.fetch_add(1, relaxed);
InitAdd ==
    /\ InitLock
    /\ value_ = 0 /\ std_ = 0 /\ seen = <<>>
    /\ todo = [t \in Threads |-> Iters]
    /\ stage = [t \in Threads |-> 1]
    /\ oldval = [t \in Threads |-> 0]

\* faulty variant: a fetch_add that returns the old value and stores nothing
FetchAdd1_NoStore(t) ==
    /\ todo[t] > 0
    /\ seen' = Append(seen, value_)
    /\ todo' = [todo EXCEPT ![t] = @ - 1]
    /\ UNCHANGED <<lockVars, call, value_, std_, stage, oldval>>

\* counter.fetch_add(1, std::memory_order_relaxed) in thread t
FetchAdd1(t) ==
    /\ todo[t] > 0
    /\ value_' = Combine("add", value_, 1)
    /\ seen' = Append(seen, value_)
    /\ todo' = [todo EXCEPT ![t] = @ - 1]
    /\ UNCHANGED <<lockVars, call, std_, stage, oldval>>

NextAdd == \E t \in Threads : FetchAdd1(t)

SpecAdd == InitAdd /\ [][NextAdd]_vars

\* ------------------------------------------------------------------ compare-exchange loops
\* the threads of the tests "concurrent CAS spin test" and "concurrent
\* compare_exchange"; every thread runs, for k = Iters, ..., 1,
\*   while (true) { oldval = a.load(); if (a.compare_exchange(oldval, oldval + d)) break; }
Spinners == 1 .. NSpin

\* the increment of round k (input[k] of the test; the spin test adds 1)
Increment(k) == k

\* the cell (and, in the test beside std::atomic, both cells) starts at 0
InitSpin ==
    /\ InitLock
    /\ value_ = 0 /\ std_ = 0 /\ seen = <<>>
    /\ todo = [t \in Threads |-> IF t \in Spinners THEN Iters ELSE 0]
    /\ stage = [t \in Threads |-> 1]
    /\ oldval = [t \in Threads |-> 0]

\* oldval = a.load()
SpinLoad(t) ==
    /\ todo[t] > 0 /\ stage[t] = 1
    /\ oldval' = [oldval EXCEPT ![t] = value_]
    /\ stage' = [stage EXCEPT ![t] = 2]
    /\ UNCHANGED <<lockVars, call, value_, std_, seen, todo>>

\* a.compare_exchange_weak / _strong (oldval, oldval + d): break on success,
\* load again on failure; the weak one may fail although the cell equals oldval
SpinCas(t) ==
    /\ todo[t] > 0 /\ stage[t] = 2
    /\ \E spurious \in BOOLEAN :
          LET ok == CasOk(value_, oldval[t]) /\ ~spurious
          IN  /\ value_' = IF ok THEN Combine("add", oldval[t], Increment(todo[t]))
                           ELSE value_
              /\ oldval' = [oldval EXCEPT ![t] = IF ok THEN 0 ELSE CasExpected(value_, @)]
              /\ todo' = [todo EXCEPT ![t] = IF ok THEN @ - 1 ELSE @]
    /\ stage' = [stage EXCEPT ![t] = 1]
    /\ UNCHANGED <<lockVars, call, std_, seen>>

NextSpin ==
    \/ \E t \in Spinners : SpinLoad(t)
    \/ \E t \in Spinners : SpinCas(t)

SpecSpin == InitSpin /\ [][NextSpin]_vars

\* ------------------------------------------------------------------ Atomic beside std::atomic
\* the statements of `exec` in the test "Concurrent Increment and Decrement"
ExecBody ==
    << <<"fetch_add", 7>>, <<"fetch_sub", 3>>, <<"pre_inc", 1>>, <<"post_inc", 1>>,
       <<"pre_dec", 1>>, <<"post_dec", 1>>, <<"add_assign", 13>>, <<"sub_assign", 11>> >>

\* what the same member of std::atomic<unsigned> leaves in its cell: unsigned
\* arithmetic modulo 2^Bits
StdCombine(f, old, arg) ==
    IF f = "add" THEN (old + arg) % WordMod ELSE (old - arg + WordMod) % WordMod

\* thread t moves on to its next statement; after exec(y) the loop counts down
Advance(t) ==
    /\ stage' = [stage EXCEPT ![t] = IF @ = 2 * Len(ExecBody) THEN 1 ELSE @ + 1]
    /\ todo' = [todo EXCEPT ![t] = IF stage[t] = 2 * Len(ExecBody) THEN @ - 1 ELSE @]

\* one statement of exec(x), x the std::atomic<unsigned>
ExecStd(t) ==
    /\ todo[t] > 0 /\ stage[t] <= Len(ExecBody)
    /\ LET st == ExecBody[stage[t]]
       IN  std_' = StdCombine(Members[st[1]].f, std_, st[2])
    /\ Advance(t)
    /\ UNCHANGED <<lockVars, call, value_, seen, oldval>>

\* one statement of exec(y), y the wjh::Atomic<unsigned>
ExecAtomic(t) ==
    /\ todo[t] > 0 /\ stage[t] > Len(ExecBody)
    /\ LET st == ExecBody[stage[t] - Len(ExecBody)]
       IN  value_' = Combine(Members[st[1]].f, value_, st[2])
    /\ Advance(t)
    /\ UNCHANGED <<lockVars, call, std_, seen, oldval>>

NextBoth ==
    \/ \E t \in Spinners : ExecStd(t)
    \/ \E t \in Spinners : ExecAtomic(t)

SpecBoth == InitSpin /\ [][NextBoth]_vars

\* ------------------------------------------------------------------ with_file_contents
\* call holds the running call: the length of the file, the size of the buffer,
\* what the last read returned (nread), how often the descriptor was opened
\* and closed, and at the end whether err() or fn(buffer) produced the result
\* and how many bytes fn was given.

\* std::size_t size = 8 * 1024
BufInit == 8 * 1024

\* lengths of the file around the sizes the buffer takes
FileLens ==
    {0, 1} \cup {BufInit + g * BufStep - d : g \in 0 .. MaxGrow, d \in 0 .. 2}

\* what ::read(fd, buffer, count) at offset 0 may return: an error, the whole
\* file or as much of it as fits, or a shorter count
ReadResults(len, count) ==
    LET full == IF len < count THEN len ELSE count
    IN  {-1, full} \cup {k \in {1, full - 1} : 0 < k /\ k < full}

\* faulty variant: the buffer is not enlarged
Grown_Same(size) == size

\* size += 1024
Grown(size) == size + BufStep

\* with_file_contents up to the loop: fd = ::open(fname, O_RDONLY)
Open(len, ok) ==
    /\ IF call.fn = "none" THEN TRUE ELSE call.at = "returned"
    /\ call' = [fn |-> "with_file_contents", len |-> len, size |-> BufInit,
                nread |-> 0, reads |-> 0,
                opened |-> IF ok THEN 1 ELSE 0, closed |-> 0,
                at |-> IF ok THEN "read" ELSE "returned",
                result |-> IF ok THEN "none" ELSE "err", given |-> 0]
    /\ UNCHANGED <<lockVars, atomVars>>

\* one pass of the loop: read size - 1 bytes from offset 0, then return the
\* error, or enlarge the buffer and seek back, or close and call fn
ReadFile ==
    /\ call.fn = "with_file_contents" /\ call.at = "read"
    /\ \E nread \in ReadResults(call.len, call.size - 1) :
          call' = IF nread <= 0
                  THEN [call EXCEPT !.nread = nread, !.reads = @ + 1, !.closed = @ + 1,
                                    !.at = "returned", !.result = "err"]
                  ELSE IF nread = call.size - 1
                  THEN [call EXCEPT !.nread = nread, !.reads = @ + 1,
                                    !.size = Grown(@)]
                  ELSE [call EXCEPT !.nread = nread, !.reads = @ + 1, !.closed = @ + 1,
                                    !.at = "returned", !.result = "fn",
                                    !.given = nread]
    /\ UNCHANGED <<lockVars, atomVars>>

NextFile ==
    \/ \E len \in FileLens, ok \in BOOLEAN : Open(len, ok)
    \/ ReadFile

\* the calling thread keeps running
SpecFile == Init /\ [][NextFile]_vars /\ WF_vars(ReadFile)

\* ------------------------------------------------------------------ get_boot_time
\* The text of /proc/stat as a sequence of tokens: the keywords "btime " and
\* "cpu " (with their blank), the line feed "\n" and the decimal digits.
Digits == {"1", "2"}

\* the value of a digit, c - '0'
DigitValue(c) == IF c = "1" THEN 1 ELSE 2

Numbers == UNION {[1 .. n -> Digits] : n \in 1 .. MaxDigits}

StatLines == [key : {"btime ", "cpu "}, num : Numbers]

StatFiles == UNION {[1 .. n -> StatLines] : n \in 1 .. MaxLines}

\* the buffer with_file_contents hands to the parser
RECURSIVE Text(_)
Text(lines) ==
    IF lines = <<>> THEN <<>>
    ELSE <<Head(lines).key>> \o Head(lines).num \o <<"\n">> \o Text(Tail(lines))

\* ::strstr(buffer, "\nbtime "): the first place of a line feed followed by
\* the keyword, 0 for a null pointer
strstr(buffer) ==
    LET found == {i \in 1 .. Len(buffer) - 1 : buffer[i] = "\n" /\ buffer[i + 1] = "btime "}
    IN  IF found = {} THEN 0 ELSE CHOOSE i \in found : \A j \in found : i <= j

\* ::atoi of the text from place q on: the decimal value of the digits at its
\* beginning, 0 when it does not begin with a digit
RECURSIVE atoi(_, _, _)
atoi(buffer, q, acc) ==
    IF q <= Len(buffer) /\ buffer[q] \in Digits
    THEN atoi(buffer, q + 1, 10 * acc + DigitValue(buffer[q]))
    ELSE acc

\* the parser of get_boot_time: the place q atoi starts at is behind
\* "\nbtime " (q += 7) where strstr found it, the beginning of the buffer where
\* the buffer begins with "btime ", and otherwise error() throws
get_boot_time(buffer) ==
    LET q == strstr(buffer)
    IN  IF q # 0 THEN [threw |-> FALSE, ret |-> atoi(buffer, q + 2, 0)]
        ELSE IF buffer[1] = "btime " THEN [threw |-> FALSE, ret |-> atoi(buffer, 1, 0)]
        ELSE [threw |-> TRUE, ret |-> 0]

\* get_boot_time() on a /proc/stat with the given lines; the one call a
\* process makes, to initialise the static boot_time
GetBootTime(lines) ==
    /\ call.fn = "none"
    /\ call' = [fn |-> "get_boot_time", lines |-> lines,
                out |-> get_boot_time(Text(lines))]
    /\ UNCHANGED <<lockVars, atomVars>>

NextStat == \E lines \in StatFiles : GetBootTime(lines)

SpecStat == Init /\ [][NextStat]_vars

\* ------------------------------------------------------------------ crash recovery
\* The test "Process Crash Recovery": the parent (thread Poller of incarnation
\* 1) polls try_lock and unlocks what it gets; the child (thread Child of
\* incarnation 2) calls lock() and may exit at any point, holding the lock or
\* not.  A later incarnation only takes a PID.
Poller == 1

Child == MainThreads + 1

CrashSpawn(p) == Spawn(p) /\ UNCHANGED obs

CrashExit(p) == p # ProcOf(Poller) /\ Exit(p) /\ UNCHANGED obs

CrashReap(p) == Reap(p) /\ UNCHANGED obs

ChildLock == Lock(Child) /\ UNCHANGED obs

ChildStep ==
    /\ Cas1(Child) \/ Probe(Child) \/ Reset(Child) \/ Cas2(Child)
    /\ UNCHANGED obs

PollTryLock == TryLock(Poller) /\ UNCHANGED obs

PollCas1 == Cas1(Poller) /\ UNCHANGED obs

PollProbe == Probe(Poller) /\ UNCHANGED obs

PollReset == Reset(Poller) /\ UNCHANGED obs

PollCas2 == Cas2(Poller) /\ UNCHANGED obs

PollUnlock == Unlock(Poller) /\ UNCHANGED obs

\* the steps of the parent's polling loop
Poll == PollTryLock \/ PollCas1 \/ PollProbe \/ PollReset \/ PollCas2

NextCrash ==
    \/ \E p \in Procs : CrashSpawn(p)
    \/ \E p \in Procs : CrashExit(p)
    \/ \E p \in Procs : CrashReap(p)
    \/ ChildLock
    \/ ChildStep
    \/ PollTryLock
    \/ PollCas1
    \/ PollProbe
    \/ PollReset
    \/ PollCas2
    \/ PollUnlock

\* the parent's loop is scheduled fairly
SpecCrash == Init /\ [][NextCrash]_vars /\ WF_vars(Poll)

\* the child is gone and its identifier is still in the cell
Orphaned ==
    /\ os[ProcOf(Child)].state \in {"zombie", "reaped"}
    /\ pid_ # null
    /\ pc[Poller] # "held"

\* ------------------------------------------------------------------ the only waiter
\* One thread (Waiter, of incarnation 1) calls lock() once.  One thread of
\* incarnation 2 (Holder) takes the lock with try_lock before the waiter
\* starts and then unlocks or dies.  A later incarnation only takes a PID.
Waiter == 1

Holder == MainThreads + 1

WaitSpawn(p) == Spawn(p) /\ UNCHANGED obs

WaitExit(p) == p # ProcOf(Waiter) /\ Exit(p) /\ UNCHANGED obs

WaitReap(p) == Reap(p) /\ UNCHANGED obs

WaitLock == Lock(Waiter) /\ UNCHANGED obs

\* the steps of the waiter's lock() loop
WaitStep ==
    /\ Cas1(Waiter) \/ Probe(Waiter) \/ Reset(Waiter) \/ Cas2(Waiter)
    /\ UNCHANGED obs

HoldTryLock == pc[Waiter] = "idle" /\ TryLock(Holder) /\ UNCHANGED obs

HoldStep ==
    /\ Cas1(Holder) \/ Probe(Holder) \/ Reset(Holder) \/ Cas2(Holder)
    /\ UNCHANGED obs

HoldUnlock == Unlock(Holder) /\ UNCHANGED obs

\* the holder lets go: it unlocks or its process dies
HoldRelease == pc[Holder] = "held" /\ (HoldUnlock \/ WaitExit(ProcOf(Holder)))

NextWait ==
    \/ \E p \in Procs : WaitSpawn(p)
    \/ \E p \in Procs : WaitExit(p)
    \/ \E p \in Procs : WaitReap(p)
    \/ WaitLock
    \/ WaitStep
    \/ HoldTryLock
    \/ HoldStep
    \/ HoldUnlock

\* the waiter is scheduled fairly and every holder eventually unlocks or dies
SpecWait == Init /\ [][NextWait]_vars /\ WF_vars(WaitStep) /\ WF_vars(HoldRelease)

\* ------------------------------------------------------------------ counter
\* The tests "Concurrent Locking with Threads" and "... with Processes": the
\* workers are the threads of the first two incarnations, which run from the
\* start; each does Iters times lock(); counter++; unlock().  A worker may die
\* at any point; a later incarnation only takes a PID.
Workers == {t \in Threads : ProcOf(t) <= 2}

InitWorkers ==
    /\ layout \in Layouts
    /\ os = [p \in Procs |-> IF p <= 2 THEN [state |-> "running", pid |-> p, start |-> 0]
                                ELSE Unborn]
    /\ pid_ = null
    /\ pc = [t \in Threads |-> IF t \in Workers THEN "idle" ELSE "dead"]
    /\ op = [t \in Threads |-> "none"]
    /\ expected = [t \in Threads |-> null]
    /\ counter = 0
    /\ tmp = [t \in Threads |-> 0]
    /\ left = [t \in Threads |-> IF t \in Workers THEN Iters ELSE 0]
    /\ obs = NoObs
    /\ id = [p \in Procs |-> NoId]
    /\ parent = [p \in Procs |-> NoProc]
    /\ call = NoCall
    /\ boot = [p \in Procs |-> boot_time]
    /\ NoAtomic

WorkSpawn(p) == Spawn(p) /\ UNCHANGED obs

WorkExit(p) == Exit(p) /\ UNCHANGED obs

WorkReap(p) == Reap(p) /\ UNCHANGED obs

\* std::lock_guard(shared->lock) of a worker that has rounds left
WorkLock(t) == t \in Workers /\ left[t] > 0 /\ Lock(t) /\ UNCHANGED obs

WorkCas1(t) == Cas1(t) /\ UNCHANGED obs

WorkProbe(t) == Probe(t) /\ UNCHANGED obs

WorkReset(t) == Reset(t) /\ UNCHANGED obs

WorkCas2(t) == Cas2(t) /\ UNCHANGED obs

\* shared->counter++ on the plain int: the read
Read(t) ==
    /\ pc[t] = "held" /\ op[t] = "none"
    /\ tmp' = [tmp EXCEPT ![t] = counter]
    /\ op' = [op EXCEPT ![t] = "incr"]
    /\ UNCHANGED <<atomVars, boot, id, parent, call, layout, os, pid_, pc, expected, counter, left, obs>>

\* shared->counter++ on the plain int: the write, which ends the round's work
Write(t) ==
    /\ pc[t] = "held" /\ op[t] = "incr"
    /\ counter' = tmp[t] + 1
    /\ tmp' = [tmp EXCEPT ![t] = 0]
    /\ left' = [left EXCEPT ![t] = @ - 1]
    /\ op' = [op EXCEPT ![t] = "done"]
    /\ UNCHANGED <<atomVars, boot, id, parent, call, layout, os, pid_, pc, expected, obs>>

\* the end of the lock_guard's scope
WorkUnlock(t) == op[t] = "done" /\ Unlock(t) /\ UNCHANGED obs

NextWorkers ==
    \/ \E p \in Procs : WorkSpawn(p)
    \/ \E p \in Procs : WorkExit(p)
    \/ \E p \in Procs : WorkReap(p)
    \/ \E t \in Threads : WorkLock(t)
    \/ \E t \in Threads : WorkCas1(t)
    \/ \E t \in Threads : WorkProbe(t)
    \/ \E t \in Threads : WorkReset(t)
    \/ \E t \in Threads : WorkCas2(t)
    \/ \E t \in Threads : Read(t)
    \/ \E t \in Threads : Write(t)
    \/ \E t \in Threads : WorkUnlock(t)

SpecWorkers == InitWorkers /\ [][NextWorkers]_vars

\* the rounds the workers in S have completed
RECURSIVE RoundsDone(_)
RoundsDone(S) ==
    IF S = {} THEN 0
    ELSE LET t == CHOOSE x \in S : TRUE
         IN  (Iters - left[t]) + RoundsDone(S \ {t})

\* ------------------------------------------------------------------ properties
\* the call obs describes has returned
Done == obs.ret # "none"

\* the identifier of the caller of the call obs describes
Me == current(ProcOf(obs.caller))

\* C1: mutual exclusion -- under every interleaving of try_lock, lock and
\* unlock by threads and processes (holders that die and orphaned locks that
\* are reclaimed included, the probe reporting live processes as live), at
\* most one live caller is between a successful acquisition and its unlock.
C1_MutualExclusion ==
    \A t, u \in Threads : (pc[t] = "held" /\ pc[u] = "held") => t = u

\* C2 as stated: when the probe of the holder's PID fails although the holder
\* is alive, try_lock returns false and leaves the cell unchanged.
C2_ProbeFailureKeepsLock ==
    (Done /\ obs.judge = "failed") => (obs.ret = "false" /\ obs.cellRet = obs.cell0)

\* C2 as the code has it: when the probe of the holder's PID fails although
\* the holder is alive, the holder is taken for dead -- with no other caller
\* touching the lock, try_lock returns true and the cell holds the caller's
\* identifier.
C2_ProbeFailureReclaims ==
    (Done /\ obs.judge = "failed") => (obs.ret = "true" /\ obs.cellRet = Me)

\* a call whose probe failed took the lock while the live holder still holds it
C2_Witness ==
    /\ Done /\ obs.judge = "failed" /\ obs.ret = "true"
    /\ \E u \in Threads : ProcOf(u) # ProcOf(obs.caller) /\ pc[u] = "held"

\* C3: orphan reclaim -- the cell holds the identifier of a process the OS
\* returns no identifier for, and no other caller touches the lock during
\* the call: try_lock returns true and the cell equals the caller's identifier.
C3_OrphanReclaim ==
    (Done /\ obs.judge = "gone") => (obs.ret = "true" /\ obs.cellRet = Me)

C3_Witness ==
    Done /\ obs.judge = "gone" /\ obs.cell0 # null /\ obs.ret = "true" /\ pid_ = Me

\* C4: crash recovery -- a process acquires the lock and exits without
\* unlocking; another live process that keeps polling try_lock, scheduled
\* fairly and with no other contender, eventually gets true.
C4_CrashRecovery == Orphaned ~> (pc[Poller] = "held")

\* C5: PID-reuse safety -- the cell holds h and the PID of h now belongs to a
\* newer process (started at another time than the holder): try_lock takes h
\* for dead and reclaims the lock; the newer process is not regarded as holder.
C5_PidReuseReclaims ==
    (Done /\ obs.judge = "reused") => (obs.ret = "true" /\ obs.cellRet = Me)

\* C6: a cell of zero bytes is a free lock -- try_lock on a cell that holds
\* the null identifier returns true and leaves the caller's identifier there.
C6_NullIsFree ==
    (Done /\ obs.cell0 = null) => (obs.ret = "true" /\ obs.cellRet = Me)

C6_Witness ==
    Done /\ obs.cell0 = null /\ obs.op = "try" /\ obs.ret = "true" /\ pid_ = Me

\* C7: the lock is held by another process that the probe confirms alive with
\* the same start time -- try_lock returns false and leaves the cell unchanged.
C7_LiveHolderKeepsLock ==
    (Done /\ obs.judge = "alive") => (obs.ret = "false" /\ obs.cellRet = obs.cell0)

C7_Witness ==
    /\ Done /\ obs.judge = "alive" /\ obs.op = "try" /\ obs.ret = "false"
    /\ pid_ = obs.cell0 /\ pid_ # Me

\* C8: reentrant acquisition is refused -- try_lock by the process whose
\* identifier is in the cell returns false, leaves the cell unchanged and
\* makes no probe; after that process has called unlock, the next try_lock
\* returns true.
C8_ReentrantRefused ==
    /\ (Done /\ obs.cell0 = Me) =>
            (obs.ret = "false" /\ obs.cellRet = obs.cell0 /\ obs.judge = "none")
    /\ (Done /\ obs.op = "try" /\ obs.before.what = "unlock"
              /\ ProcOf(obs.before.who) = ProcOf(obs.caller)) => obs.ret = "true"

\* try_lock; try_lock (refused); unlock; try_lock by one thread
C8_Witness ==
    /\ Done /\ obs.op = "try" /\ obs.ret = "true" /\ obs.wasRefused
    /\ obs.before = [who |-> obs.caller, what |-> "unlock", by |-> "try"]

\* C9: thread exclusion inside one process -- while thread A holds the lock
\* it got from lock(), every try_lock by another thread B of the process
\* returns false; the first try_lock by B after A's unlock, with no other
\* contender, returns true.
C9_ThreadExclusion ==
    /\ (Done /\ obs.mate = "lock") => obs.ret = "false"
    /\ (Done /\ obs.op = "try" /\ obs.before.what = "unlock" /\ obs.before.by = "lock"
              /\ obs.before.who # obs.caller
              /\ ProcOf(obs.before.who) = ProcOf(obs.caller)) => obs.ret = "true"

\* A: lock; B: try_lock (refused); A: unlock; B: try_lock
C9_Witness ==
    /\ Done /\ obs.op = "try" /\ obs.ret = "true" /\ obs.wasRefused
    /\ obs.before.what = "unlock" /\ obs.before.by = "lock"
    /\ obs.before.who # obs.caller /\ ProcOf(obs.before.who) = ProcOf(obs.caller)

InCall(t) == pc[t] \in {"cas1", "probe", "reset", "cas2"}

\* C11: lock() returns only after one of its attempts succeeded -- the step
\* in which lock() returns is a successful compare-exchange from null that
\* leaves the caller's identifier in the cell; a failed attempt is retried.
C11_LockReturnsHolding ==
    [][\A t \in Threads :
          (op[t] = "lock" /\ InCall(t) /\ pc'[t] \notin {"cas1", "probe", "reset", "cas2", "dead"})
              => (pc'[t] = "held" /\ CasOk(pid_, null) /\ pid_' = me(t))]_vars

\* a worker holds the lock it got from lock() while another spins in lock()
C11_Witness ==
    \E t, u \in Workers :
        /\ pc[t] = "held" /\ pid_ = me(t)
        /\ op[u] = "lock" /\ pc[u] = "probe" /\ expected[u] = me(t)

\* C12: lock() makes progress -- the caller is the only waiter and is
\* scheduled fairly, and every holder eventually unlocks or dies: lock()
\* eventually returns.
C12_LockProgress == (op[Waiter] = "lock") ~> (pc[Waiter] = "held")

\* C13: unlock is a compare-exchange from the caller's identifier to null --
\* a cell that holds the caller's identifier becomes null; a cell that holds
\* anything else is left unchanged and assert(released) fails, so the lock of
\* another process is never released.
C13_UnlockIsCas ==
    [][\A t \in Threads :
          (pc[t] = "held" /\ pc'[t] = "idle") =>
              /\ IF pid_ = me(t)
                 THEN pid_' = null /\ obs'.last.what = "unlock"
                 ELSE pid_' = pid_ /\ obs'.last.what = "asserted"
              /\ \A u \in Threads :
                     (ProcOf(u) # ProcOf(t) /\ pc[u] = "held" /\ pid_ = me(u)) => pid_' = pid_]_vars

\* a thread whose lock was taken away has called unlock; the taker still holds
C13_Witness ==
    /\ obs.last.what = "asserted"
    /\ \E u \in Threads : ProcOf(u) # ProcOf(obs.last.who) /\ pc[u] = "held" /\ pid_ = me(u)

\* the last call was current() in process p, which is still running
CurrentIn(p) == call.fn = "current" /\ call.who = p /\ os[p].state = "running"

\* C14: the cached current() is refreshed across fork -- after any fork, whether
\* or not the parent had called current() before and also for a fork made by a
\* forked child, current() in the child carries the child's own PID and differs
\* from the value of its parent; the fork leaves the parent's value unchanged.
C14_CurrentAcrossFork ==
    [][/\ \A p \in Procs :
             CurrentIn(p)' =>
                 /\ pid(layout, call'.ret) = os'[p].pid
                 /\ (parent'[p] # NoProc /\ id'[parent'[p]].set /\ os'[parent'[p]].state = "running")
                        => call'.ret # id'[parent'[p]].value
       /\ \A p \in Procs :
             (os[p].state = "unborn" /\ os'[p].state = "running")
                 => id'[parent'[p]] = id[parent'[p]]]_vars

\* a grandchild calls current(): its parent had called current() before the
\* fork, its grandparent never did
C14_Witness ==
    \E c, g \in Procs :
        /\ parent[g] = c /\ parent[c] # NoProc
        /\ ~id[parent[c]].set
        /\ id[c].by = "call" /\ id[g].by = "atfork"
        /\ CurrentIn(g) /\ os[c].state = "running"

\* C15: maybe(pid) and ProcessId(pid) agree -- maybe(pid) is empty exactly when
\* the start-time lookup fails, exactly then ProcessId(pid) throws, and when
\* the lookup succeeds both give the same identifier.
C15_MaybeAgreesWithConstructor ==
    /\ call.fn = "maybe" =>
          /\ (call.ret = nullopt) <=> (call.st = nullopt)
          /\ (call.ret = nullopt) <=> value_from_optional(call.pid, call.st).threw
          /\ call.ret # nullopt => call.ret[1] = value_from_optional(call.pid, call.st).value
    /\ call.fn = "ProcessId(pid)" =>
          /\ call.ret.threw <=> (call.st = nullopt)
          /\ call.ret.threw <=> (maybe_with(call.pid, call.st) = nullopt)
          /\ ~call.ret.threw => maybe_with(call.pid, call.st) = <<call.ret.value>>

\* maybe() of the PID of a child that was just reaped
C15_Witness ==
    /\ call.fn = "maybe" /\ call.ret = nullopt /\ call.pid \in Pids
    /\ \E p \in Procs : os[p].pid = call.pid /\ os[p].state = "reaped"
    /\ OwnerOf(call.pid) = NoProc

\* an identifier was constructed by the last call
Constructed == call.fn \in {"ProcessId(pid)", "ProcessId(pid, tv)"} /\ ~call.ret.threw

\* C16: round trip of the packed identifier in both layouts -- for an
\* identifier id obtained from a PID, ProcessId(id.pid(), id.start_time()) = id
\* and id.pid() is the PID it was made from.
C16_RoundTrip ==
    Constructed =>
        LET v == call.ret.value
        IN  /\ value_from_optional(pid(layout, v), <<start_time(layout, v)>>).value = v
            /\ pid(layout, v) = call.pid

\* an identifier of a running process that started off a whole second, in the
\* layout that keeps the microseconds
C16_Witness ==
    /\ call.fn = "ProcessId(pid)" /\ ~call.ret.threw /\ layout = 128
    /\ OwnerOf(call.pid) # NoProc
    /\ start_time(layout, call.ret.value).usec # 0

\* C17: no valid identifier collides with null -- for every pid # 0 and every
\* start time the packed value of ProcessId(pid, start_time) is not zero.
C17_NeverNull ==
    (call.fn = "ProcessId(pid, tv)" /\ call.pid # 0) => call.ret.value # null

\* an identifier of a PID that is not 0 whose start-time half is zero
C17_Witness ==
    /\ call.fn = "ProcessId(pid, tv)" /\ call.pid # 0
    /\ call.ret.value % HalfMod(layout) = 0

\* C18: in the 64-bit layout the microseconds are discarded -- ProcessId(pid, t1)
\* equals ProcessId(pid, t2) exactly when t1.tv_sec and t2.tv_sec agree modulo
\* 2^32, whatever the tv_usec; start_time().tv_usec is 0; the start-time bits
\* do not spill into the PID half.
C18_SecondsOnly ==
    (layout = 64 /\ call.fn = "ProcessId(pid, tv)") =>
        /\ \A t2 \in Timevals :
              (value_from(layout, call.pid, t2) = call.ret.value)
                  <=> (t2.sec % Pow32 = call.tv.sec % Pow32)
        /\ start_time(layout, call.ret.value).usec = 0
        /\ pid(layout, call.ret.value) = call.pid

\* a start time with microseconds, more than 2^32 seconds after the epoch
C18_Witness ==
    /\ layout = 64 /\ call.fn = "ProcessId(pid, tv)"
    /\ call.tv.usec # 0 /\ call.tv.sec >= epoch + Pow32

\* C19: in the 64-bit layout start_time() gives back the seconds that were
\* encoded -- for every tv_sec of the 2^32 seconds that start at the epoch,
\* ProcessId(pid, {tv_sec, usec}).start_time().tv_sec = tv_sec.
C19_SecondsRecovered ==
    (/\ layout = 64 /\ call.fn = "ProcessId(pid, tv)"
     /\ epoch <= call.tv.sec /\ call.tv.sec < epoch + Pow32)
        => start_time(layout, call.ret.value).sec = call.tv.sec

\* the cell held, when the call began, the identifier of a process that has
\* exited and is not reaped
ZombieHolder == \E o \in Procs : os[o].state = "zombie" /\ obs.cell0 = current(o)

\* C20: a process in state Zombie or Dead has no start time -- the lookup
\* reports none and maybe(pid) is empty, so a lock whose holder has exited but
\* is not reaped yet is taken for orphaned and is reclaimed by try_lock.
C20_ZombieIsOrphan ==
    /\ \A o \in Procs :
          os[o].state = "zombie" =>
              (start_time_of(os[o].pid) = nullopt /\ maybe(os[o].pid) = nullopt)
    /\ (Done /\ ZombieHolder) =>
          (obs.judge = "gone" /\ obs.ret = "true" /\ obs.cellRet = Me)

\* a call that found the identifier of a zombie and returned while the holder
\* was still a zombie
C20_Witness ==
    /\ Done /\ ZombieHolder /\ obs.ret = "true" /\ pid_ = Me
    /\ \E o \in Procs : os[o].state = "zombie" /\ obs.cell0 = current(o) /\ o # ProcOf(obs.caller)

\* C21: probing is deterministic for a live process -- while a process stays
\* alive, maybe(pid) called at any time from any process returns the same
\* identifier.
C21_ProbesAgree ==
    (/\ call.fn = "maybe" /\ call.ret # nullopt
     /\ os[call.owner].state = "running")
        => \A p \in Procs :
              os[p].state = "running" => maybe_in(p, call.pid) = call.ret

\* C22: Atomic<T> store and load -- a cell initialised to a and then stored b
\* loads b, whichever memory orders the store and the load that returned were
\* given.
C22_LoadsWhatWasStored ==
    (call.fn = "load" /\ call.done /\ call.last.fn = "store" /\ call.last.done)
        => call.ret = call.last.arg

\* a release store of a value the cell did not hold, read by an acquire load
C22_Witness ==
    /\ call.fn = "load" /\ call.done /\ ~call.asserted /\ call.order = memory_order_acquire
    /\ call.last.fn = "store" /\ call.last.done /\ ~call.last.asserted
    /\ call.last.order = memory_order_release
    /\ call.ret = NVals - 1

\* C28: store(v, o) asserts its order the same way for every cell type -- the
\* assert passes exactly for relaxed, release and seq_cst and fails for
\* consume, acquire and acq_rel, for fundamental T and for struct T alike.
C28_StoreOrderAssert ==
    call.fn = "store" =>
        (~call.asserted <=>
            call.order \in {memory_order_relaxed, memory_order_release, memory_order_seq_cst})

\* C23: compare_exchange_strong succeeds exactly when the cell equals expected --
\* on success it returns true, the cell becomes desired and expected is
\* unchanged; on failure it returns false, the cell is unchanged and expected
\* holds the value the cell had.
C23_StrongCompareExchange ==
    (call.fn = "compare_exchange" /\ ~call.weak /\ call.done) =>
        /\ call.ret <=> (call.cell0 = call.exp)
        /\ call.ret => (value_ = call.des /\ call.expOut = call.exp)
        /\ ~call.ret => (value_ = call.cell0 /\ call.expOut = call.cell0)

\* a strong compare-exchange that failed and one cannot tell from a success
\* by the cell alone: desired equals the value the cell holds
C23_Witness ==
    /\ call.fn = "compare_exchange" /\ ~call.weak /\ call.done /\ ~call.asserted
    /\ ~call.ret /\ call.exp # call.cell0 /\ call.des = call.cell0
    /\ call.expOut = value_

\* C29: the compare-exchange with two orders passes its asserts exactly when
\* fail is relaxed, consume, acquire or seq_cst and fail is not stronger than
\* success; every other pair trips an assert.
C29_CompareExchangeOrders ==
    call.fn = "compare_exchange" =>
        (~call.asserted <=>
            /\ call.fail \in {memory_order_relaxed, memory_order_consume,
                               memory_order_acquire, memory_order_seq_cst}
            /\ call.fail <= call.success)

\* fail is an order a load may have, but stronger than success: the second
\* assert trips
C29_Witness ==
    /\ call.fn = "compare_exchange" /\ call.asserted
    /\ call.fail = memory_order_acquire /\ call.success = memory_order_relaxed

\* C24: for all integers init and inc of the width of the cell, fetch_add(inc)
\* returns init and leaves init + inc in the cell, fetch_sub(inc) returns init
\* and leaves init - inc, modulo 2^width, in one step.
C24_FetchAddSub ==
    /\ call.fn = "fetch_add" =>
          (call.ret = call.cell0 /\ value_ = (call.cell0 + call.arg) % WordMod)
    /\ call.fn = "fetch_sub" =>
          (call.ret = call.cell0 /\ value_ = (call.cell0 - call.arg) % WordMod)

\* a fetch_add that wraps around
C24_Witness ==
    /\ call.fn = "fetch_add" /\ call.cell0 + call.arg >= WordMod
    /\ value_ < call.cell0 /\ call.arg # 0

\* C27: the operator shortcuts return the value their own atomic step made --
\* +=, -=, &=, |=, ^=, ++x and --x return the new value (the previous value
\* combined with the argument), x++ and x-- return the previous value,
\* whatever other calls changed the cell before.
C27_OperatorResults ==
    /\ call.fn \in {"add_assign", "sub_assign", "and_assign", "or_assign", "xor_assign",
                    "pre_inc", "pre_dec"} =>
          (call.ret = value_ /\ value_ = Combine(Members[call.fn].f, call.cell0, call.arg))
    /\ call.fn \in {"post_inc", "post_dec"} =>
          (call.ret = call.cell0 /\ value_ = Combine(Members[call.fn].f, call.cell0, 1))

\* an ^= whose result differs from the previous value and from the argument
C27_Witness ==
    /\ call.fn = "xor_assign" /\ call.ret # call.cell0 /\ call.ret # call.arg
    /\ call.cell0 # 0 /\ call.ret = value_

\* all test threads have finished their loops
AllDone == \A t \in Threads : todo[t] = 0

\* C25: N threads that each call fetch_add(1) M times on a cell that starts at
\* 0 -- under every interleaving the final value is N * M and the N * M
\* returned previous values are pairwise distinct.
C25_ConcurrentIncrement ==
    /\ \A i, j \in 1 .. Len(seen) : i # j => seen[i] # seen[j]
    /\ AllDone => (value_ = NThreads * Iters /\ Len(seen) = NThreads * Iters)

\* all threads are done and their calls were interleaved: the cell is N * M
C25_Witness ==
    AllDone /\ value_ = NThreads * Iters /\ Len(seen) = NThreads * Iters /\ value_ > Iters

RECURSIVE SumTo(_)
SumTo(k) == IF k = 0 THEN 0 ELSE Increment(k) + SumTo(k - 1)

\* C26: N threads that each run M times the loop {old = load(); retry until
\* compare_exchange(old, old + d) succeeds} -- under every interleaving the
\* final value is the sum of all increments; a compare-exchange that lost a
\* race never applies its stale update.
C26_CasLoop ==
    /\ [](AllDone => value_ = NSpin * SumTo(Iters))
    /\ [][value_' # value_ =>
            \E t \in Spinners :
                /\ stage[t] = 2 /\ oldval[t] = value_
                /\ value_' = Combine("add", value_, Increment(todo[t]))
                /\ todo'[t] = todo[t] - 1]_vars

\* a thread is about to lose a race (the cell is no longer the value it
\* loaded) while another thread has already finished all its rounds
C26_Witness ==
    \E t, u \in Spinners :
        /\ stage[t] = 2 /\ oldval[t] # value_ /\ todo[t] > 0
        /\ todo[u] = 0 /\ value_ > 0

C31_ResetOnlyClearsJudged ==
    [][\A t \in Threads :
          /\ (pc[t] = "reset" /\ pc'[t] = "cas2") =>
                pid_' = (IF pid_ = expected[t] THEN null ELSE pid_)
          /\ (pc[t] = "cas2" /\ pc'[t] = "held") => (pid_ = null /\ pid_' = me(t))
          /\ (pc[t] = "cas2" /\ pc'[t] \in {"idle", "cas1"}) =>
                (pid_ # null /\ pid_' = pid_)]_vars

\* a caller is about to reset although another reclaimer has acquired already
C31_Witness ==
    \E t \in Threads : pc[t] = "reset" /\ pid_ # null /\ pid_ # expected[t]

\* C32: every change of the lock cell made by try_lock, lock or unlock is one
\* of three compare-exchange transitions -- null to the caller's identifier
\* (acquire), the caller's identifier to null (unlock), an identifier judged
\* dead to null (orphan reset); the cell never goes from one non-null
\* identifier to another.
C32_ThreeTransitions ==
    [][pid_' # pid_ =>
         \/ /\ pid_ = null
            /\ \E t \in Threads : pc[t] \in {"cas1", "cas2"} /\ pc'[t] = "held"
                                   /\ pid_' = me(t)
         \/ /\ pid_' = null
            /\ \E t \in Threads : pc[t] = "held" /\ pc'[t] = "idle" /\ pid_ = me(t)
         \/ /\ pid_' = null
            /\ \E t \in Threads : pc[t] = "reset" /\ pc'[t] = "cas2"
                                   /\ pid_ = expected[t]]_vars

\* the cell holds the identifier of a second holder: the first holder's
\* identifier was cleared, and a caller that judged the first holder dead is
\* still about to reset
C32_Witness ==
    \E t, u \in Threads :
        /\ pc[t] = "held" /\ pid_ = me(t)
        /\ pc[u] = "reset" /\ expected[u] # pid_ /\ expected[u] # null

\* C33: try_lock never waits or loops -- whatever the other threads and
\* processes do, a call passes the first compare-exchange, the probe, the reset
\* and the second acquisition at most once each and in that order (at most
\* three compare-exchanges and one probe) and then returns; only lock() goes
\* back to the first compare-exchange.
C33_TryLockBounded ==
    [][LET Rank(l) == CASE l = "cas1" -> 1 [] l = "probe" -> 2 [] l = "reset" -> 3
                        [] l = "cas2" -> 4 [] OTHER -> 5
       IN  \A t \in Threads :
              /\ (op[t] = "try" /\ InCall(t) /\ pc'[t] # pc[t]) =>
                    /\ Rank(pc'[t]) > Rank(pc[t])
                    /\ pc[t] = "probe" => pid_' = pid_
              /\ (InCall(t) /\ Rank(pc'[t]) < Rank(pc[t])) =>
                    (op[t] = "lock" /\ pc'[t] = "cas1")]_vars

\* a try_lock has made two compare-exchanges and a probe and is about to make
\* its third and last compare-exchange, while a lock() of another process retries
C33_Witness ==
    \E t, u \in Threads :
        /\ op[t] = "try" /\ pc[t] = "cas2"
        /\ ProcOf(u) # ProcOf(t) /\ op[u] = "lock" /\ pc[u] = "probe"

\* C34: ownership is recorded per process, not per thread -- an unlock called
\* by any thread of the process whose identifier is in the cell, the thread
\* that acquired or another one, sets the cell to null and passes
\* assert(released); afterwards another process can acquire while the thread
\* that acquired still believes it holds the lock.
C34_UnlockByAnyThread ==
    (obs.last.what # "none" /\ obs.cell0 = me(obs.caller)) =>
        (obs.last.what = "unlock" /\ obs.cellRet = null)

\* thread w unlocked what thread u of its process had acquired, and a thread
\* of another process holds the lock now while u has not unlocked
C34_Witness ==
    \E u, v \in Threads :
        /\ obs.last.what = "unlock" /\ obs.caller # u
        /\ ProcOf(obs.caller) = ProcOf(u) /\ pc[obs.caller] = "idle"
        /\ pc[u] = "held" /\ pc[v] = "held" /\ ProcOf(v) # ProcOf(u)
        /\ pid_ = me(v) /\ os[ProcOf(u)].state = "running"

\* C35: ownership is not inherited across fork -- while the cell holds the
\* identifier of a live process, a child that process forked (whose current()
\* is its own identifier) gets false from try_lock and does not reset the
\* cell, and its unlock fails: no step of the child changes the cell, which
\* keeps the parent's identifier.
C35_NotInheritedByFork ==
    [][\A t \in Threads :
          LET par == parent[ProcOf(t)]
          IN  (par # NoProc /\ os[par].state = "running" /\ pid_ = current(par)) =>
                 /\ pc'[t] # "held"
                 /\ (pc[t] = "probe" /\ expected[t] = pid_) => pc'[t] # "reset"
                 /\ (pc'[t] # pc[t] /\ pc'[t] # "dead") => pid_' = pid_
                 /\ (obs' # obs /\ obs'.caller = t) =>
                       (pid_' = pid_ /\ obs'.last.what = "asserted")]_vars

\* the child of a live holder has called unlock: the cell still holds the
\* parent's identifier and the parent's thread still holds the lock
C35_Witness ==
    \E t, u \in Threads :
        /\ parent[ProcOf(t)] = ProcOf(u) /\ os[ProcOf(u)].state = "running"
        /\ pc[u] = "held" /\ pid_ = me(u) /\ pid_ # me(t)
        /\ obs.caller = t /\ obs.last.what = "asserted" /\ obs.cell0 = pid_
        /\ pc[t] = "probe" /\ expected[t] = pid_

\* C36: lock() called by a process whose identifier is already in the cell
\* does not return as long as no thread of that process calls unlock -- every
\* retry observes its own identifier and fails without a probe and without a
\* reset, and the cell stays unchanged (self-deadlock, not reclaim).
C36_SelfDeadlock ==
    [][\A t \in Threads :
          (op[t] = "lock" /\ pc[t] = "cas1" /\ pid_ = me(t)) =>
             /\ pc'[t] \in {"cas1", "dead"}
             /\ (pc'[t] = "cas1" /\ pid_' # pid_) =>
                   \E u \in Threads : /\ ProcOf(u) = ProcOf(t)
                                      /\ pc[u] = "held" /\ pc'[u] = "idle"
                                      /\ pid_' = null]_vars

\* C37: the overloads compare_exchange_weak/strong(expected, desired, order)
\* with one order, which hand that order to the implementation for success
\* and for fail, accept each of the six orders without tripping an assert.
C37_SingleOrderAccepted ==
    (call.fn = "compare_exchange" /\ call.success = call.fail) => ~call.asserted

\* C38: reading a pseudo-file uses a bounded retry -- the buffer starts at
\* 8 KiB; each read that fills it enlarges it by 1 KiB and reads again from
\* offset 0; the loop ends for every finite file; a failed open or a read
\* that returns <= 0 gives the error result without a call of the parser; the
\* descriptor is closed exactly once on every return path.
C38_BoundedRetry ==
    /\ [](call.fn = "with_file_contents" =>
            /\ call.size = BufInit + BufStep *
                    (IF call.at = "read" \/ call.reads = 0 THEN call.reads
                     ELSE call.reads - 1)
            /\ call.size = BufInit \/ call.size - BufStep - 1 <= call.len
            /\ call.at = "read" => call.closed = 0
            /\ call.at = "returned" =>
                  /\ call.closed = call.opened
                  /\ (call.opened = 0 \/ call.nread <= 0) <=> call.result = "err"
                  /\ call.result = "fn" => (call.given = call.nread /\ call.given < call.size - 1))
    /\ (call.fn = "with_file_contents" /\ call.at = "read")
          ~> (call.fn = "with_file_contents" /\ call.at = "returned")

\* a file larger than the first buffer was read after two enlargements and
\* handed to the parser, the descriptor closed once
C38_Witness ==
    /\ call.fn = "with_file_contents" /\ call.at = "returned" /\ call.result = "fn"
    /\ call.reads = 3 /\ call.size = BufInit + 2 * BufStep /\ call.given = call.len
    /\ call.opened = 1 /\ call.closed = 1

\* the decimal value of a number of /proc/stat
RECURSIVE ValueOf(_)
ValueOf(num) ==
    IF num = <<>> THEN 0
    ELSE 10 * ValueOf(SubSeq(num, 1, Len(num) - 1)) + DigitValue(num[Len(num)])

\* C39: the boot time read from /proc/stat is the integer that follows the
\* "btime " keyword, whether the btime line is the first line of the file or
\* a later one; without a btime line an error is raised and no value returned.
C39_BootTimeParsed ==
    call.fn = "get_boot_time" =>
        LET btimes == {i \in 1 .. Len(call.lines) : call.lines[i].key = "btime "}
        IN  IF btimes = {} THEN call.out.threw
            ELSE /\ ~call.out.threw
                 /\ \E i \in btimes : call.out.ret = ValueOf(call.lines[i].num)

====
